---- MODULE Spec2Model ----
(***************************************************************************)
(* A model of the Monkey interpreter pipeline of rusty_monkey: the token   *)
(* stream handed to Parser::new, the Pratt parser (parser.rs), and the     *)
(* tree-walking evaluator (eval.rs) with its value algebra (object.rs).    *)
(* Parsing and evaluation are pure recursive functions of the code and     *)
(* are translated as RECURSIVE operators; the state machine steps through  *)
(* Lexer::get_next_token, Parser::parse_next_statement and the statement   *)
(* loop of Program::eval.  A second state machine, EnvSpec, runs the       *)
(* chained environments of environment.rs; a third, ReplSpec, runs the     *)
(* read-eval-print loop of repl.rs over the lines of a session.            *)
(***************************************************************************)
EXTENDS Integers, Sequences, FiniteSets, TLC

VARIABLES
    overflow_checks, \* the build: TRUE when integer overflow panics (debug),
                     \* FALSE when it wraps (release)
    source,       \* the text handed to Lexer::new, one character per element
    chars,        \* Lexer.chars_iter: what is left of the text
    heap,         \* the Environment cells allocated so far (Rc<RefCell<..>>)
    last_set,     \* the last Environment::set call: its cell, name and value
    input,        \* the token stream handed to Parser::new
    tokens,       \* Parser.tokens: what is left of the stream
    statements,   \* the statements parsed so far
    phase,        \* "lex", "parse", "eval" or "done"; "env" in EnvSpec; in
                  \* ReplSpec also "read", "exited" and "aborted"
    index,        \* Program::eval: how many top-level statements are evaluated
    result,       \* Program::eval: the local `result`
    current_env,  \* Program::eval: the local `current_env`
    outcome,      \* "running", then "ok", "err" or "panic"
    returned,     \* the object of the Stack returned by Program::eval
    error,        \* the message of the Err returned by Program::eval
    log,          \* the evaluation events so far
    stdin,        \* Repl::start: the lines of standard input
    line,         \* Repl::start: how many of them read_line has returned
    stdout        \* Repl::start: what println! has written after the
                  \* greeting, each with the number of the line it answers

lexer_vars == <<source, chars>>
env_vars == <<heap, last_set>>
repl_vars == <<stdin, line, stdout>>
vars == <<overflow_checks, lexer_vars, env_vars, repl_vars, input, tokens,
          statements, phase, index, result, current_env, outcome, returned,
          error, log>>

(***************************************************************************)
(* token.rs: TokenType                                                     *)
(***************************************************************************)
Tok(t) == [type |-> t]
TokInt(n) == [type |-> "Int", val |-> n]
TokIdent(s) == [type |-> "Identifier", name |-> s]

\* TokenType::precedence
precedence(token) ==
    CASE token.type \in {"Eq", "NotEq"} -> 2
      [] token.type \in {"Gt", "Gte", "Lt", "Lte"} -> 3
      [] token.type \in {"Plus", "Minus"} -> 4
      [] token.type \in {"Slash", "Asterisk"} -> 5
      [] token.type = "LParen" -> 7
      [] token.type = "LBracket" -> 8
      [] OTHER -> 0

\* TokenType::operation; the Option is a sequence of length 0 or 1
operation(token) ==
    CASE token.type = "Plus" -> <<"Add">>
      [] token.type = "Minus" -> <<"Sub">>
      [] token.type = "Asterisk" -> <<"Mul">>
      [] token.type = "Slash" -> <<"Div">>
      [] token.type = "Eq" -> <<"Eq">>
      [] token.type = "NotEq" -> <<"NotEq">>
      [] token.type = "Lt" -> <<"Lt">>
      [] token.type = "Lte" -> <<"Lte">>
      [] token.type = "Gt" -> <<"Gt">>
      [] token.type = "Gte" -> <<"Gte">>
      [] OTHER -> <<>>

\* token.to_string() as parse_let and parse_function_params use it to name
\* an Identifier: the name of an identifier token, the digits of an Int.
TokenToString(token) ==
    CASE token.type = "Identifier" -> token.name
      [] token.type = "Int" -> ToString(token.val)
      [] OTHER -> token.type

\* i64, scaled to IntBits bits: I64_MIN..I64_MAX
IntBits == 8
I64_MIN == -(2 ^ (IntBits - 1))
I64_MAX == 2 ^ (IntBits - 1) - 1

(***************************************************************************)
(* lexer.rs.  A text is a sequence of characters, each a string of length  *)
(* one; get_next_token returns Some(token) or None with the characters it  *)
(* leaves in chars_iter.                                                   *)
(***************************************************************************)
LSome(t, rest) == [some |-> TRUE, val |-> t, rest |-> rest]
LNone(rest) == [some |-> FALSE, val |-> Tok("Illegal"), rest |-> rest]

\* char::is_ascii_digit, and the digits in the order of their value
DigitChars == <<"0", "1", "2", "3", "4", "5", "6", "7", "8", "9">>
is_ascii_digit(c) == \E i \in 1..Len(DigitChars) : DigitChars[i] = c
DigitValue(c) == (CHOOSE i \in 1..Len(DigitChars) : DigitChars[i] = c) - 1

\* char::is_alphabetic on the letters of the texts
AlphabeticChars ==
    {"a", "b", "c", "d", "e", "f", "g", "h", "i", "j", "k", "l", "m", "n",
     "o", "p", "q", "r", "s", "t", "u", "v", "w", "x", "y", "z"}
is_alphabetic(c) == c \in AlphabeticChars

RECURSIVE DigitRun(_)
\* iter::from_fn(|| next_if(is_ascii_digit)): the length of the run of digits
DigitRun(cs) ==
    IF cs # <<>> /\ is_ascii_digit(Head(cs)) THEN 1 + DigitRun(Tail(cs))
    ELSE 0

RECURSIVE AlphabeticRun(_)
\* iter::from_fn(|| next_if(is_alphabetic)): the length of the run of letters
AlphabeticRun(cs) ==
    IF cs # <<>> /\ is_alphabetic(Head(cs)) THEN 1 + AlphabeticRun(Tail(cs))
    ELSE 0

RECURSIVE ParseI64(_, _)
\* str::parse::<i64> on a run of digits: the value, or -1 for the Err of a
\* number above I64_MAX
ParseI64(digits, acc) ==
    IF acc > I64_MAX THEN -1
    ELSE IF digits = <<>> THEN acc
    ELSE ParseI64(Tail(digits), acc * 10 + DigitValue(Head(digits)))

RECURSIVE CollectString(_)
\* collect::<String>()
CollectString(cs) ==
    IF cs = <<>> THEN "" ELSE Head(cs) \o CollectString(Tail(cs))

\* the match on result.as_str(): a keyword, or an identifier
WordToken(word) ==
    CASE word = "fn" -> Tok("Function")
      [] word = "let" -> Tok("Let")
      [] word = "false" -> Tok("False")
      [] word = "true" -> Tok("True")
      [] word = "if" -> Tok("If")
      [] word = "else" -> Tok("Else")
      [] word = "return" -> Tok("Return")
      [] word = "nil" -> Tok("Nil")
      [] OTHER -> TokIdent(word)

\* chars_iter.next_if_eq(&'=').map_or(Some(one), |_| Some(two))
TwoCharToken(rest, one, two) ==
    IF rest # <<>> /\ Head(rest) = "=" THEN LSome(Tok(two), Tail(rest))
    ELSE LSome(Tok(one), rest)

\* the arm of a digit: the run of digits parsed as an i64
NumberToken(cs) ==
    LET n == DigitRun(cs)
        value == ParseI64(SubSeq(cs, 1, n), 0)
    IN LSome(IF value < 0 THEN Tok("Illegal") ELSE TokInt(value),
             SubSeq(cs, n + 1, Len(cs)))

\* the arm of a letter: the run of letters as a keyword or an identifier
LetterToken(cs) ==
    LET n == AlphabeticRun(cs) IN
    LSome(WordToken(CollectString(SubSeq(cs, 1, n))),
          SubSeq(cs, n + 1, Len(cs)))

RECURSIVE get_next_token(_)
\* Lexer::get_next_token
get_next_token(cs) ==
    IF cs = <<>> THEN LNone(cs)
    ELSE CASE Head(cs) = " " -> get_next_token(Tail(cs))
           [] Head(cs) = "\n" -> get_next_token(Tail(cs))
           [] Head(cs) = "," -> LSome(Tok("Comma"), Tail(cs))
           [] Head(cs) = ":" -> LSome(Tok("Colon"), Tail(cs))
           [] Head(cs) = ";" -> LSome(Tok("Semicolon"), Tail(cs))
           [] Head(cs) = "(" -> LSome(Tok("LParen"), Tail(cs))
           [] Head(cs) = ")" -> LSome(Tok("RParen"), Tail(cs))
           [] Head(cs) = "[" -> LSome(Tok("LBracket"), Tail(cs))
           [] Head(cs) = "]" -> LSome(Tok("RBracket"), Tail(cs))
           [] Head(cs) = "{" -> LSome(Tok("LBracket"), Tail(cs))
           [] Head(cs) = "}" -> LSome(Tok("RBracket"), Tail(cs))
           [] Head(cs) = "-" -> LSome(Tok("Minus"), Tail(cs))
           [] Head(cs) = "+" -> LSome(Tok("Plus"), Tail(cs))
           [] Head(cs) = "*" -> LSome(Tok("Asterisk"), Tail(cs))
           [] Head(cs) = "." -> LSome(Tok("Dot"), Tail(cs))
           [] Head(cs) = "/" -> LSome(Tok("Slash"), Tail(cs))
           [] Head(cs) = "=" -> TwoCharToken(Tail(cs), "Assign", "Eq")
           [] Head(cs) = "!" -> TwoCharToken(Tail(cs), "Bang", "NotEq")
           [] Head(cs) = "<" -> TwoCharToken(Tail(cs), "Lt", "Lte")
           [] Head(cs) = ">" -> TwoCharToken(Tail(cs), "Gt", "Gte")
           [] is_ascii_digit(Head(cs)) -> NumberToken(cs)
           [] is_alphabetic(Head(cs)) -> LetterToken(cs)
           [] OTHER -> LSome(Tok("Illegal"), Tail(cs))

RECURSIVE peekable_iter(_)
\* Lexer::peekable_iter: every token up to the first None
peekable_iter(cs) ==
    IF get_next_token(cs).some
    THEN <<get_next_token(cs).val>> \o peekable_iter(get_next_token(cs).rest)
    ELSE <<>>

(***************************************************************************)
(* ast.rs: Statement, Expression, Literal.  A Block is the sequence of its *)
(* statements; an Option<Block> is a sequence of at most one Block.        *)
(***************************************************************************)
ExprIdentifier(name) == [kind |-> "Identifier", name |-> name]
LitInt(n) == [kind |-> "Int", val |-> n]
LitTrue == [kind |-> "True"]
LitFalse == [kind |-> "False"]
LitNil == [kind |-> "Nil"]
ExprLiteral(l) == [kind |-> "Literal", literal |-> l]
ExprPrefix(op, e) == [kind |-> "Prefix", operation |-> op, expression |-> e]
ExprInfix(op, l, r) ==
    [kind |-> "Infix", operation |-> op, left_expression |-> l,
     right_expression |-> r]
ExprIf(c, cons, alt) ==
    [kind |-> "If", condition |-> c, consequence |-> cons, alternative |-> alt]
ExprFunction(params, body) ==
    [kind |-> "Function", params |-> params, body |-> body]
ExprCall(f, args) == [kind |-> "Call", function |-> f, arguments |-> args]

StmtLet(id, e) == [kind |-> "Let", identifier |-> id, expression |-> e]
StmtReturn(e) == [kind |-> "Return", expression |-> e]
StmtExpression(e) == [kind |-> "Expression", expression |-> e]

(***************************************************************************)
(* ast.rs: the Display implementations                                     *)
(***************************************************************************)
\* impl Display for PrefixOperation
PrefixOperationDisplay(op) == IF op = "Bang" THEN "!" ELSE "-"

\* impl Display for InfixOperation
InfixOperationDisplay(op) ==
    CASE op = "Eq" -> "=="
      [] op = "Lt" -> "<"
      [] op = "Gt" -> ">"
      [] op = "Gte" -> ">="
      [] op = "Add" -> "+"
      [] op = "Sub" -> "-"
      [] op = "Lte" -> "<="
      [] op = "NotEq" -> "!="
      [] op = "Mul" -> "*"
      [] op = "Div" -> "/"

\* impl Display for Literal
LiteralDisplay(l) ==
    CASE l.kind = "Nil" -> "nil"
      [] l.kind = "True" -> "true"
      [] l.kind = "False" -> "false"
      [] l.kind = "Int" -> ToString(l.val)

RECURSIVE JoinNames(_, _)
\* the parameter loop of Display for Function: names separated by ", "
JoinNames(names, i) ==
    IF i > Len(names) THEN ""
    ELSE names[i] \o (IF i # Len(names) THEN ", " ELSE "")
         \o JoinNames(names, i + 1)

RECURSIVE ExpressionDisplay(_)
RECURSIVE StatementDisplay(_)
RECURSIVE BlockDisplay(_, _)
RECURSIVE JoinExpressions(_, _)

\* impl Display for Block: the statements one after the other
BlockDisplay(block, i) ==
    IF i > Len(block) THEN ""
    ELSE StatementDisplay(block[i]) \o BlockDisplay(block, i + 1)

\* impl Display for Statement
StatementDisplay(s) ==
    CASE s.kind = "Let" ->
           "let " \o s.identifier \o " = " \o ExpressionDisplay(s.expression)
      [] s.kind = "Return" -> "return " \o ExpressionDisplay(s.expression)
      [] s.kind = "Expression" ->
           "return " \o ExpressionDisplay(s.expression)
      [] s.kind = "Block" -> BlockDisplay(s.block, 1)

\* the arguments of a call, separated by ", "
JoinExpressions(es, i) ==
    IF i > Len(es) THEN ""
    ELSE ExpressionDisplay(es[i]) \o (IF i # Len(es) THEN ", " ELSE "")
         \o JoinExpressions(es, i + 1)

\* a call prints as `callee (arg1, arg2, ...)`
CallDisplay(e) ==
    ExpressionDisplay(e.function) \o " (" \o JoinExpressions(e.arguments, 1)
    \o ")"

\* impl Display for Expression, Prefix, Infix, If and Function
ExpressionDisplay(e) ==
    CASE e.kind = "Literal" -> LiteralDisplay(e.literal)
      [] e.kind = "Prefix" ->
           "(" \o PrefixOperationDisplay(e.operation)
           \o ExpressionDisplay(e.expression) \o ")"
      [] e.kind = "Infix" ->
           "(" \o ExpressionDisplay(e.left_expression)
           \o InfixOperationDisplay(e.operation)
           \o ExpressionDisplay(e.right_expression) \o ")"
      [] e.kind = "If" ->
           "if " \o ExpressionDisplay(e.condition) \o " "
           \o BlockDisplay(e.consequence, 1)
           \o (IF e.alternative # <<>>
               THEN " else " \o BlockDisplay(e.alternative[1], 1) ELSE "")
      [] e.kind = "Identifier" -> e.name
      [] e.kind = "Function" ->
           "fn (" \o JoinNames(e.params, 1) \o ")"
           \o (IF Len(e.body) > 0 THEN " " ELSE "")
           \o BlockDisplay(e.body, 1)
      [] e.kind = "Call" -> CallDisplay(e)

(***************************************************************************)
(* parser.rs.  Every parse function takes the remaining token stream and   *)
(* returns what it built with the stream it leaves: ok = FALSE is a panic  *)
(* (an unwrap of None), some = FALSE is a None result.                     *)
(***************************************************************************)
NoVal == [kind |-> "None"]
POk(v, rest) == [ok |-> TRUE, some |-> TRUE, val |-> v, rest |-> rest]
PNone(rest) == [ok |-> TRUE, some |-> FALSE, val |-> NoVal, rest |-> rest]
PPanic(rest) == [ok |-> FALSE, some |-> FALSE, val |-> NoVal, rest |-> rest]

\* Peekable::next_if_eq: the stream after consuming `t` if it is next
NextIs(ts, t) == ts # <<>> /\ Head(ts).type = t
next_if_eq(ts, t) == IF NextIs(ts, t) THEN Tail(ts) ELSE ts

\* Parser::try_next_token: tokens.next().unwrap()
try_next_token(ts) == IF ts = <<>> THEN PPanic(ts) ELSE POk(Head(ts), Tail(ts))

\* the next_if closure of parse_expression without its comparison of precedences
InfixLoopCondNoPrecedence(precedente, peek) ==
    /\ peek.type # "Semicolon"
    /\ operation(peek) # <<>>

\* the next_if closure of the loop in parse_expression
InfixLoopCond(precedente, peek) ==
    /\ peek.type # "Semicolon"
    /\ precedente < precedence(peek)
    /\ operation(peek) # <<>>

\* a panic of a callee unwinds through the caller; otherwise go on with F
PThen(r, F(_)) == IF ~r.ok THEN PPanic(r.rest) ELSE F(r)
\* Option::unwrap on the result of parse_prefix
PUnwrap(r) == IF ~r.ok \/ ~r.some THEN PPanic(r.rest) ELSE r
\* the `?` on assert_next_and_advance: None when `t` is not the next token
PExpect(ts, t, F(_)) == IF NextIs(ts, t) THEN F(Tail(ts)) ELSE PNone(ts)

RECURSIVE parse_statement(_, _)
RECURSIVE parse_expression(_, _, _)
RECURSIVE parse_expression_loop(_, _, _)
RECURSIVE parse_prefix(_, _)
RECURSIVE parse_block_loop(_, _, _)
RECURSIVE parse_function_params_loop(_, _)
RECURSIVE parse_call_arguments_loop(_, _)

\* Parser::parse_prefix_expression
parse_prefix_expression(op, ts) ==
    PThen(try_next_token(ts), LAMBDA t :
    PThen(parse_expression(6, t.val, t.rest), LAMBDA e :
    POk(ExprPrefix(op, e.val), e.rest)))

\* Parser::parse_grouped_expression
parse_grouped_expression(ts) ==
    PThen(try_next_token(ts), LAMBDA t :
    PThen(parse_expression(0, t.val, t.rest), LAMBDA e :
    PExpect(e.rest, "RParen", LAMBDA rest : POk(e.val, rest))))

\* Parser::parse_block: the while loop, statements up to the closing RBrace
parse_block_loop(current_token, stmts, ts) ==
    IF current_token.type = "RBrace" THEN POk(stmts, ts)
    ELSE PThen(parse_statement(current_token, ts), LAMBDA s :
         PThen(try_next_token(s.rest), LAMBDA t :
         parse_block_loop(t.val, Append(stmts, s.val), t.rest)))

\* Parser::parse_block
parse_block(ts) ==
    PThen(try_next_token(ts), LAMBDA t : parse_block_loop(t.val, <<>>, t.rest))

\* Parser::parse_if_expression from the optional else on; assert_peek
\* unwraps the peeked token
parse_if_alternative(condition, cons) ==
    IF cons.rest = <<>> THEN PPanic(cons.rest)
    ELSE IF Head(cons.rest).type = "Else"
    THEN PThen(parse_block(next_if_eq(Tail(cons.rest), "LBrace")),
               LAMBDA alt :
               POk(ExprIf(condition, cons.val, <<alt.val>>), alt.rest))
    ELSE POk(ExprIf(condition, cons.val, <<>>), cons.rest)

\* Parser::parse_if_expression
parse_if_expression(ts) ==
    PExpect(ts, "LParen", LAMBDA r1 :
    PThen(try_next_token(r1), LAMBDA t :
    PThen(parse_expression(0, t.val, t.rest), LAMBDA c :
    PExpect(c.rest, "RParen", LAMBDA r2 :
    PExpect(r2, "LBrace", LAMBDA r3 :
    PThen(parse_block(r3), LAMBDA cons :
    parse_if_alternative(c.val, cons)))))))

\* Parser::parse_function_params: the while loop over Comma
parse_function_params_loop(identifiers, ts) ==
    IF ts = <<>> THEN PPanic(ts)
    ELSE IF Head(ts).type = "Comma"
    THEN PThen(try_next_token(Tail(ts)), LAMBDA t :
         parse_function_params_loop(
             Append(identifiers, TokenToString(t.val)), t.rest))
    ELSE POk(identifiers, next_if_eq(ts, "RParen"))

\* Parser::parse_function_params
parse_function_params(ts) ==
    IF NextIs(ts, "RParen") THEN POk(<<>>, Tail(ts))
    ELSE PThen(try_next_token(ts), LAMBDA t :
         parse_function_params_loop(<<TokenToString(t.val)>>, t.rest))

\* Parser::parse_function
parse_function(ts) ==
    PThen(parse_function_params(next_if_eq(ts, "LParen")), LAMBDA params :
    PThen(parse_block(next_if_eq(params.rest, "LBrace")), LAMBDA body :
    POk(ExprFunction(params.val, body.val), body.rest)))

\* Parser::parse_call_arguments: one argument, then the loop over Comma
parse_call_arguments_loop(args, ts) ==
    PThen(try_next_token(ts), LAMBDA t :
    PThen(parse_expression(0, t.val, t.rest), LAMBDA e :
    IF e.rest = <<>> THEN PPanic(e.rest)
    ELSE IF Head(e.rest).type = "Comma"
    THEN parse_call_arguments_loop(Append(args, e.val), Tail(e.rest))
    ELSE POk(Append(args, e.val), next_if_eq(e.rest, "RParen"))))

\* Parser::parse_call_arguments
parse_call_arguments(ts) ==
    IF NextIs(ts, "RParen") THEN POk(<<>>, Tail(ts))
    ELSE parse_call_arguments_loop(<<>>, ts)

\* Parser::parse_call_expression
parse_call_expression(function, ts) ==
    PThen(parse_call_arguments(ts), LAMBDA arguments :
    POk(ExprCall(function, arguments.val), arguments.rest))

\* Parser::parse_infix_expression parsing its right operand one level lower
parse_infix_expression_RightAssoc(left_expression, token, ts) ==
    PThen(try_next_token(ts), LAMBDA t :
    PThen(parse_expression(precedence(token) - 1, t.val, t.rest), LAMBDA r :
    POk(ExprInfix(operation(token)[1], left_expression, r.val), r.rest)))

\* Parser::parse_infix_expression
parse_infix_expression(left_expression, token, ts) ==
    PThen(try_next_token(ts), LAMBDA t :
    PThen(parse_expression(precedence(token), t.val, t.rest), LAMBDA r :
    POk(ExprInfix(operation(token)[1], left_expression, r.val), r.rest)))

\* Parser::parse_prefix
parse_prefix(token, ts) ==
    CASE token.type = "Identifier" -> POk(ExprIdentifier(token.name), ts)
      [] token.type = "Int" -> POk(ExprLiteral(LitInt(token.val)), ts)
      [] token.type = "True" -> POk(ExprLiteral(LitTrue), ts)
      [] token.type = "False" -> POk(ExprLiteral(LitFalse), ts)
      [] token.type = "Nil" -> POk(ExprLiteral(LitNil), ts)
      [] token.type \in {"Bang", "Minus"} ->
           parse_prefix_expression(token.type, ts)
      [] token.type = "LParen" -> parse_grouped_expression(ts)
      [] token.type = "If" -> parse_if_expression(ts)
      [] token.type = "Function" -> parse_function(ts)
      [] OTHER -> PNone(ts)

\* Parser::parse_expression: the while-let loop over infix operators
parse_expression_loop(precedente, left, ts) ==
    IF ts # <<>> /\ InfixLoopCond(precedente, Head(ts))
    THEN PThen(IF Head(ts).type = "LParen"
               THEN parse_call_expression(left, Tail(ts))
               ELSE parse_infix_expression(left, Head(ts), Tail(ts)),
               LAMBDA r : parse_expression_loop(precedente, r.val, r.rest))
    ELSE POk(left, ts)

\* Parser::parse_expression: parse_prefix(..).unwrap(), then the loop
parse_expression(precedente, current_token, ts) ==
    PThen(PUnwrap(parse_prefix(current_token, ts)), LAMBDA p :
    parse_expression_loop(precedente, p.val, p.rest))

\* the statement a parsed expression makes, less an optional Semicolon
StatementOf(kind, name, ts) ==
    PThen(try_next_token(ts), LAMBDA t :
    PThen(parse_expression(0, t.val, t.rest), LAMBDA e :
    POk(IF kind = "Let" THEN StmtLet(name, e.val)
        ELSE IF kind = "Return" THEN StmtReturn(e.val)
        ELSE StmtExpression(e.val),
        next_if_eq(e.rest, "Semicolon"))))

\* Parser::parse_expr_statement (the statement after a Return token)
parse_expr_statement(ts) == StatementOf("Return", "", ts)

\* Parser::parse_let
parse_let(ts) ==
    PThen(try_next_token(ts), LAMBDA token :
    StatementOf("Let", TokenToString(token.val),
                next_if_eq(token.rest, "Assign")))

\* Parser::parse_statement
parse_statement(token, ts) ==
    CASE token.type = "Let" -> parse_let(ts)
      [] token.type = "Return" -> parse_expr_statement(ts)
      [] OTHER -> StatementOf("Expression", "", <<token>> \o ts)

\* Parser::parse_next_statement that peeks at the next token and leaves it
\* in the stream
parse_next_statement_Peek(ts) == parse_statement(Head(ts), ts)

\* Parser::parse_next_statement on a stream that has a next token
parse_next_statement(ts) == parse_statement(Head(ts), Tail(ts))

(***************************************************************************)
(* object.rs: Object and its operators.  An operator returns Ok(object),  *)
(* Err(message) or panics (todo!(), division by zero).                     *)
(***************************************************************************)
ObjNil == [kind |-> "Nil"]
ObjInt(n) == [kind |-> "Int", val |-> n]
ObjBool(b) == [kind |-> "Bool", val |-> b]
ObjReturn(o) == [kind |-> "Return", val |-> o]
\* Object::Function(Function {parameters, body, env}): env is the captured
\* environment, a cell of the heap of environment.rs
ObjFunction(parameters, body, env) ==
    [kind |-> "Function", parameters |-> parameters, body |-> body,
     env |-> env]

OOk(o) == [status |-> "ok", object |-> o, msg |-> ""]
OErr(m) == [status |-> "err", object |-> ObjNil, msg |-> m]
OPanic == [status |-> "panic", object |-> ObjNil, msg |-> ""]

RECURSIVE ObjectDisplay(_)
\* impl Display for Object.  No run displays an Object::Function
\* (Expression::eval has todo!() for a function literal), so its arm is
\* left at the name of the object.
ObjectDisplay(o) ==
    CASE o.kind = "Nil" -> "nil"
      [] o.kind = "Int" -> ToString(o.val)
      [] o.kind = "Bool" -> IF o.val THEN "true" ELSE "false"
      [] o.kind = "Return" -> "return " \o ObjectDisplay(o.val)
      [] OTHER -> "fn"

\* Object::bang
bang(o) ==
    CASE o.kind = "Nil" -> OOk(ObjBool(TRUE))
      [] o.kind = "Bool" -> OOk(ObjBool(~o.val))
      [] OTHER -> OOk(ObjBool(FALSE))

\* two's complement wrap-around of n into I64_MIN..I64_MAX
Wrap(n) == ((n - I64_MIN) % (2 ^ IntBits)) + I64_MIN

\* the Int of an arithmetic result: out of range it is a panic where the
\* build checks overflow, and the wrapped value where it does not
Checked(n) ==
    IF n >= I64_MIN /\ n <= I64_MAX THEN OOk(ObjInt(n))
    ELSE IF overflow_checks THEN OPanic
    ELSE OOk(ObjInt(Wrap(n)))

\* Object::minus
minus(o) ==
    IF o.kind = "Int" THEN Checked(-o.val)
    ELSE OErr("unknown operator -" \o ObjectDisplay(o))

BothInt(l, r) == l.kind = "Int" /\ r.kind = "Int"

\* i64 division truncates toward zero
Abs(n) == IF n < 0 THEN -n ELSE n
TruncDiv(a, b) ==
    IF (a < 0) = (b < 0) THEN Abs(a) \div Abs(b) ELSE -(Abs(a) \div Abs(b))

\* Object::add
add(l, r) ==
    IF BothInt(l, r) THEN Checked(l.val + r.val)
    ELSE OErr("type mismatch: " \o ObjectDisplay(l) \o " + "
              \o ObjectDisplay(r))

\* Object::sub
sub(l, r) == IF BothInt(l, r) THEN Checked(l.val - r.val) ELSE OPanic

\* Object::mul
mul(l, r) == IF BothInt(l, r) THEN Checked(l.val * r.val) ELSE OPanic

\* Object::div: the native division panics on a zero divisor and on
\* I64_MIN / -1, whatever the build
div(l, r) ==
    IF BothInt(l, r) /\ r.val # 0 /\ ~(l.val = I64_MIN /\ r.val = -1)
    THEN OOk(ObjInt(TruncDiv(l.val, r.val)))
    ELSE OPanic

\* Object::eq
eq(l, r) ==
    IF BothInt(l, r) \/ (l.kind = "Bool" /\ r.kind = "Bool")
    THEN OOk(ObjBool(l.val = r.val))
    ELSE OPanic

\* Object::not_eq: self.eq(right)?.bang()
not_eq(l, r) == IF eq(l, r).status # "ok" THEN eq(l, r) ELSE bang(eq(l, r).object)

\* Object::gt, lt, lte, gte
gt(l, r) == IF BothInt(l, r) THEN OOk(ObjBool(l.val > r.val)) ELSE OPanic
lt(l, r) == IF BothInt(l, r) THEN OOk(ObjBool(l.val < r.val)) ELSE OPanic
lte(l, r) == IF BothInt(l, r) THEN OOk(ObjBool(l.val <= r.val)) ELSE OPanic
gte(l, r) == IF BothInt(l, r) THEN OOk(ObjBool(l.val >= r.val)) ELSE OPanic

\* the match on infix.operation in Expression::eval
InfixApply(op, l, r) ==
    CASE op = "Add" -> add(l, r)
      [] op = "Sub" -> sub(l, r)
      [] op = "Mul" -> mul(l, r)
      [] op = "Div" -> div(l, r)
      [] op = "Eq" -> eq(l, r)
      [] op = "NotEq" -> not_eq(l, r)
      [] op = "Gt" -> gt(l, r)
      [] op = "Gte" -> gte(l, r)
      [] op = "Lt" -> lt(l, r)
      [] op = "Lte" -> lte(l, r)
      [] OTHER -> OOk(ObjNil)

(***************************************************************************)
(* eval.rs.  The environment is the name -> Object map that is moved       *)
(* through every eval call inside a Stack.  An eval function returns       *)
(* Result<Stack>: status "ok" with object and env, status "err" with the   *)
(* message, or status "panic".  `path` is the address of the evaluated     *)
(* node in the program tree and `log` records, in order, every statement   *)
(* whose evaluation starts ("eval"), every statement that yields a value   *)
(* ("done") and every block that yields a value ("block").                 *)
(***************************************************************************)
EmptyEnv == [n \in {} |-> ObjNil]
EnvHas(env, name) == name \in DOMAIN env
\* HashMap::insert that keeps the value a name already has
EnvInsert_KeepFirst(env, name, o) == env @@ (name :> o)
\* HashMap::insert
EnvInsert(env, name, o) == (name :> o) @@ env

EOk(o, env, lg) ==
    [status |-> "ok", object |-> o, env |-> env, msg |-> "", log |-> lg]
EErr(m, lg) ==
    [status |-> "err", object |-> ObjNil, env |-> EmptyEnv, msg |-> m,
     log |-> lg]
EPanic(lg) ==
    [status |-> "panic", object |-> ObjNil, env |-> EmptyEnv, msg |-> "",
     log |-> lg]
\* the `?` operator: an Err (or a panic) of a callee is the caller's result
Failed(r) == r.status # "ok"

Event(ev, path, o) == [ev |-> ev, path |-> path, object |-> o]

\* Literal::eval
LiteralEval(l) ==
    CASE l.kind = "Int" -> ObjInt(l.val)
      [] l.kind = "True" -> ObjBool(TRUE)
      [] l.kind = "False" -> ObjBool(FALSE)
      [] l.kind = "Nil" -> ObjNil
      [] OTHER -> ObjBool(FALSE)

RECURSIVE StatementEval(_, _, _, _)
RECURSIVE ExpressionEval(_, _, _, _)
RECURSIVE BlockEvalLoop(_, _, _, _, _, _)
RECURSIVE IfEval(_, _, _, _)

\* Block::eval without the `break` at a Return
BlockEvalLoop_NoBreak(block, i, res, env, path, lg) ==
    IF i > Len(block)
    THEN EOk(res, env, Append(lg, Event("block", path, res)))
    ELSE LET stack == StatementEval(block[i], env, Append(path, i), lg) IN
         IF Failed(stack) THEN stack
         ELSE BlockEvalLoop(block, i + 1, stack.object, stack.env, path,
                            stack.log)

\* Block::eval: the for loop, breaking at the first Return
BlockEvalLoop(block, i, res, env, path, lg) ==
    IF i > Len(block) \/ res.kind = "Return"
    THEN EOk(res, env, Append(lg, Event("block", path, res)))
    ELSE LET stack == StatementEval(block[i], env, Append(path, i), lg) IN
         IF Failed(stack) THEN stack
         ELSE BlockEvalLoop(block, i + 1, stack.object, stack.env, path,
                            stack.log)

\* Block::eval opening a scope of its own: the bindings made in the block
\* end with it
BlockEval_OwnScope(block, env, path, lg) ==
    LET stack == BlockEvalLoop(block, 1, ObjNil, env, path, lg) IN
    IF Failed(stack) THEN stack ELSE [stack EXCEPT !.env = env]

\* Block::eval
BlockEval(block, env, path, lg) ==
    BlockEvalLoop(block, 1, ObjNil, env, path, lg)

\* the `for block in self.alternative.as_ref()` loop of If::eval
AlternativeEval(alternative, env, path, lg) ==
    IF alternative = <<>> THEN EOk(ObjNil, env, lg)
    ELSE BlockEval(alternative[1], env, Append(path, 2), lg)

\* If::eval
IfEval(e, env, path, lg) ==
    LET stack == ExpressionEval(e.condition, env, Append(path, 0), lg) IN
    IF Failed(stack) THEN stack
    ELSE CASE stack.object.kind = "Nil" ->
                AlternativeEval(e.alternative, stack.env, path, stack.log)
           [] stack.object.kind = "Int" ->
                BlockEval(e.consequence, stack.env, Append(path, 1),
                          stack.log)
           [] stack.object.kind = "Bool" ->
                IF stack.object.val
                THEN BlockEval(e.consequence, stack.env, Append(path, 1),
                               stack.log)
                ELSE AlternativeEval(e.alternative, stack.env, path,
                                     stack.log)
           [] OTHER -> EPanic(stack.log)

\* Expression::eval
ExpressionEval(e, env, path, lg) ==
    CASE e.kind = "Literal" -> EOk(LiteralEval(e.literal), env, lg)
      [] e.kind = "Prefix" ->
           LET right == ExpressionEval(e.expression, env, Append(path, 0), lg)
           IN IF Failed(right) THEN right
              ELSE LET o == IF e.operation = "Bang" THEN bang(right.object)
                            ELSE minus(right.object)
                   IN CASE o.status = "ok" ->
                             EOk(o.object, right.env, right.log)
                        [] o.status = "err" -> EErr(o.msg, right.log)
                        [] OTHER -> EPanic(right.log)
      [] e.kind = "If" -> IfEval(e, env, path, lg)
      [] e.kind = "Identifier" ->
           IF EnvHas(env, e.name) THEN EOk(env[e.name], env, lg)
           ELSE EErr("identifier not found: " \o e.name, lg)
      [] e.kind = "Infix" ->
           LET left == ExpressionEval(e.left_expression, env,
                                      Append(path, 1), lg)
           IN IF Failed(left) THEN left
              ELSE
              LET right == ExpressionEval(e.right_expression, left.env,
                                          Append(path, 2), left.log)
              IN IF Failed(right) THEN right
                 ELSE
                 LET o == InfixApply(e.operation, left.object, right.object)
                 IN CASE o.status = "ok" ->
                           EOk(o.object, right.env, right.log)
                      [] o.status = "err" -> EErr(o.msg, right.log)
                      [] OTHER -> EPanic(right.log)
      [] OTHER -> EPanic(lg)

\* Statement::eval with a Let arm that yields Nil instead of the bound object
StatementEvalArms_LetNil(s, env, path, lg) ==
    CASE s.kind = "Return" ->
           LET stack == ExpressionEval(s.expression, env, path, lg) IN
           IF Failed(stack) THEN stack
           ELSE EOk(ObjReturn(stack.object), stack.env, stack.log)
      [] s.kind = "Expression" -> ExpressionEval(s.expression, env, path, lg)
      [] s.kind = "Block" -> BlockEval(s.block, env, path, lg)
      [] OTHER ->
           LET stack == ExpressionEval(s.expression, env, path, lg) IN
           IF Failed(stack) THEN stack
           ELSE EOk(ObjNil,
                    EnvInsert(stack.env, s.identifier, stack.object),
                    stack.log)

\* the arms of the match in Statement::eval
StatementEvalArms(s, env, path, lg) ==
    CASE s.kind = "Return" ->
           LET stack == ExpressionEval(s.expression, env, path, lg) IN
           IF Failed(stack) THEN stack
           ELSE EOk(ObjReturn(stack.object), stack.env, stack.log)
      [] s.kind = "Expression" -> ExpressionEval(s.expression, env, path, lg)
      [] s.kind = "Block" -> BlockEval(s.block, env, path, lg)
      [] OTHER ->
           LET stack == ExpressionEval(s.expression, env, path, lg) IN
           IF Failed(stack) THEN stack
           ELSE EOk(stack.object,
                    EnvInsert(stack.env, s.identifier, stack.object),
                    stack.log)

\* Statement::eval
StatementEval(s, env, path, lg) ==
    LET r == StatementEvalArms(s, env, path,
                               Append(lg, Event("eval", path, NoVal)))
    IN IF Failed(r) THEN r
       ELSE [r EXCEPT !.log = Append(@, Event("done", path, r.object))]

(***************************************************************************)
(* environment.rs.  Every Rc<RefCell<Environment>> is a cell of the heap,  *)
(* named by its index; `outer` is the index of the outer cell, or 0 for    *)
(* None.  An Option<Object> is a sequence of at most one Object.           *)
(***************************************************************************)
\* struct Environment
Environment(store, outer) == [store |-> store, outer |-> outer]

\* Environment::new
new == Environment(EmptyEnv, 0)

\* Environment::new_enclosed: the heap with the new cell at its end
new_enclosed(h, outer, store) == Append(h, Environment(store, outer))

RECURSIVE get(_, _, _)
\* Environment::get
get(h, cell, name) ==
    IF name \in DOMAIN h[cell].store THEN <<h[cell].store[name]>>
    ELSE IF h[cell].outer # 0 THEN get(h, h[cell].outer, name)
    ELSE <<>>

\* Environment::set making the environment a stored Function captures the
\* outer environment of the one it is stored in
set_CaptureAsOuter(h, cell, name, val) ==
    [h EXCEPT ![cell].store = (name :> val) @@ @,
              ![cell].outer = IF val.kind = "Function" THEN val.env ELSE @]

\* Environment::set writing to the outer environment when there is one
set_WriteThrough(h, cell, name, val) ==
    LET target == IF h[cell].outer # 0 THEN h[cell].outer ELSE cell IN
    [h EXCEPT ![target].store = (name :> val) @@ @]

\* Environment::set
set(h, cell, name, val) ==
    [h EXCEPT ![cell].store = (name :> val) @@ @]

(***************************************************************************)
(* The token streams the model runs on.                                    *)
(***************************************************************************)
MaxChainOps == 2
MaxStatements == 3

K(t) == Tok(t)
I(n) == TokInt(n)
Id(s) == TokIdent(s)

InfixTokens ==
    {K("Plus"), K("Minus"), K("Asterisk"), K("Slash"), K("Eq"), K("NotEq"),
     K("Lt"), K("Lte"), K("Gt"), K("Gte")}

OperandName(i) == <<"a", "b", "c", "d", "e", "f">>[i]

\* the i-th operand of a chain: an identifier, or its negation
Operands(i) ==
    {<<Id(OperandName(i))>>, <<K("Minus"), Id(OperandName(i))>>}

RECURSIVE ChainsOf(_)
\* paren-free operator chains  x1 op x2 op ... with n infix operators
ChainsOf(n) ==
    IF n = 0 THEN Operands(1)
    ELSE {c \o <<op>> \o x :
            c \in ChainsOf(n - 1), op \in InfixTokens, x \in Operands(n + 1)}

OperatorChains == UNION {ChainsOf(n) : n \in 1..MaxChainOps}

\* 9;
TextNine == <<I(9), K("Semicolon")>>
\* return 2 * 5;
TextReturn ==
    <<K("Return"), I(2), K("Asterisk"), I(5), K("Semicolon")>>
\* true + false;
TextMismatch == <<K("True"), K("Plus"), K("False"), K("Semicolon")>>
\* let a = 5;
TextLet == <<K("Let"), Id("a"), K("Assign"), I(5), K("Semicolon")>>
\* a
TextIdent == <<Id("a"), K("Semicolon")>>
\* if (10 > 1) { if (10 > 1) { return 10; } return 1; };
TextNestedReturn ==
    <<K("If"), K("LParen"), I(10), K("Gt"), I(1), K("RParen"), K("LBrace"),
      K("If"), K("LParen"), I(10), K("Gt"), I(1), K("RParen"), K("LBrace"),
      K("Return"), I(10), K("Semicolon"), K("RBrace"),
      K("Return"), I(1), K("Semicolon"), K("RBrace"), K("Semicolon")>>
\* if (10 > 1) { true + false; };
TextBlockMismatch ==
    <<K("If"), K("LParen"), I(10), K("Gt"), I(1), K("RParen"), K("LBrace"),
      K("True"), K("Plus"), K("False"), K("Semicolon"), K("RBrace"),
      K("Semicolon")>>
\* return if (true) { return 1 };
TextReturnIfReturn ==
    <<K("Return"), K("If"), K("LParen"), K("True"), K("RParen"), K("LBrace"),
      K("Return"), I(1), K("RBrace"), K("Semicolon")>>
\* let b = if (a) { return a } else { 7 };
TextLetIfReturn ==
    <<K("Let"), Id("b"), K("Assign"), K("If"), K("LParen"), Id("a"),
      K("RParen"), K("LBrace"), K("Return"), Id("a"), K("RBrace"), K("Else"),
      K("LBrace"), I(7), K("RBrace"), K("Semicolon")>>
\* if (a == 5) { let a = 2; 3 } else { a; 4 };
TextIfElse ==
    <<K("If"), K("LParen"), Id("a"), K("Eq"), I(5), K("RParen"), K("LBrace"),
      K("Let"), Id("a"), K("Assign"), I(2), K("Semicolon"), I(3),
      K("RBrace"), K("Else"), K("LBrace"), Id("a"), K("Semicolon"), I(4),
      K("RBrace"), K("Semicolon")>>

StatementTexts ==
    {TextNine, TextReturn, TextMismatch, TextLet, TextIdent, TextNestedReturn,
     TextBlockMismatch, TextReturnIfReturn, TextLetIfReturn, TextIfElse}

RECURSIVE ProgramsOf(_)
\* the programs of exactly n statements
ProgramsOf(n) ==
    IF n = 0 THEN {<<>>}
    ELSE {p \o t : p \in ProgramsOf(n - 1), t \in StatementTexts}

Programs == UNION {ProgramsOf(n) : n \in 0..MaxStatements}

\* 1 + 2 + 3;
TextSum ==
    <<I(1), K("Plus"), I(2), K("Plus"), I(3), K("Semicolon")>>
\* a + add(b * c) + d;
TextCallInSum ==
    <<Id("a"), K("Plus"), Id("add"), K("LParen"), Id("b"), K("Asterisk"),
      Id("c"), K("RParen"), K("Plus"), Id("d"), K("Semicolon")>>
\* let identity = fn(x) { x; }; identity(5);
TextIdentityCall ==
    <<K("Let"), Id("identity"), K("Assign"), K("Function"), K("LParen"),
      Id("x"), K("RParen"), K("LBrace"), Id("x"), K("Semicolon"),
      K("RBrace"), K("Semicolon"),
      Id("identity"), K("LParen"), I(5), K("RParen"), K("Semicolon")>>
\* let add = fn(x, y) { x + y; }; add(5 + 5, add(5, 5));
TextAddCall ==
    <<K("Let"), Id("add"), K("Assign"), K("Function"), K("LParen"),
      Id("x"), K("Comma"), Id("y"), K("RParen"), K("LBrace"), Id("x"),
      K("Plus"), Id("y"), K("Semicolon"), K("RBrace"), K("Semicolon"),
      Id("add"), K("LParen"), I(5), K("Plus"), I(5), K("Comma"), Id("add"),
      K("LParen"), I(5), K("Comma"), I(5), K("RParen"), K("RParen"),
      K("Semicolon")>>
\* let x = V; let f = fn() { x }; let x = W; f()
TextLexicalScope(v, w) ==
    <<K("Let"), Id("x"), K("Assign"), v, K("Semicolon"),
      K("Let"), Id("f"), K("Assign"), K("Function"), K("LParen"),
      K("RParen"), K("LBrace"), Id("x"), K("RBrace"), K("Semicolon"),
      K("Let"), Id("x"), K("Assign"), w, K("Semicolon"),
      Id("f"), K("LParen"), K("RParen")>>
ScopeValues == {I(5), I(7), K("True"), K("Nil")}

\* the conditions of an if: nil, false, true, 0, 5, fn() { 1 }
CondNil == <<K("Nil")>>
CondFalse == <<K("False")>>
CondTrue == <<K("True")>>
CondZero == <<I(0)>>
CondFive == <<I(5)>>
CondFunction ==
    <<K("Function"), K("LParen"), K("RParen"), K("LBrace"), I(1),
      K("RBrace")>>
IfConditions ==
    {CondNil, CondFalse, CondTrue, CondZero, CondFive, CondFunction}
\* if (cond) { 10 };   or   if (cond) { 10 } else { 20 };
TextIf(cond, with_else) ==
    <<K("If"), K("LParen")>> \o cond
    \o <<K("RParen"), K("LBrace"), I(10), K("RBrace")>>
    \o (IF with_else THEN <<K("Else"), K("LBrace"), I(20), K("RBrace")>>
        ELSE <<>>)
    \o <<K("Semicolon")>>
IfTexts == {TextIf(c, e) : c \in IfConditions, e \in BOOLEAN}

\* l op r;  for literal operands
InfixOperandTokens == {I(5), I(0), K("True"), K("False")}
TextInfix(l, op, r) == <<l, op, r, K("Semicolon")>>
InfixTexts ==
    {TextInfix(l, op, r) :
       l \in InfixOperandTokens, op \in InfixTokens,
       r \in InfixOperandTokens}

\* (-I64_MAX - 1), the least Int
OperandMin ==
    <<K("LParen"), K("Minus"), I(I64_MAX), K("Minus"), I(1), K("RParen")>>
MinusOperands ==
    {<<I(5)>>, <<I(0)>>, <<I(I64_MAX)>>, <<K("True")>>, <<K("False")>>,
     <<K("Nil")>>, OperandMin}
\* -x;
TextMinus(x) == <<K("Minus")>> \o x \o <<K("Semicolon")>>
MinusTexts == {TextMinus(x) : x \in MinusOperands}

\* let a = 5; let b = a; let c = a + b + 5; c;
TextLetChain ==
    <<K("Let"), Id("a"), K("Assign"), I(5), K("Semicolon"),
      K("Let"), Id("b"), K("Assign"), Id("a"), K("Semicolon"),
      K("Let"), Id("c"), K("Assign"), Id("a"), K("Plus"), Id("b"),
      K("Plus"), I(5), K("Semicolon"),
      Id("c"), K("Semicolon")>>
\* let a = 5; let a = 7; a;
TextRebind ==
    <<K("Let"), Id("a"), K("Assign"), I(5), K("Semicolon"),
      K("Let"), Id("a"), K("Assign"), I(7), K("Semicolon"),
      Id("a"), K("Semicolon")>>
\* foobar
TextFoobar == <<Id("foobar")>>
\* if (true) { let a = 1 };
TextIfLet ==
    <<K("If"), K("LParen"), K("True"), K("RParen"), K("LBrace"),
      K("Let"), Id("a"), K("Assign"), I(1), K("RBrace"), K("Semicolon")>>
\* if (false) { 1 } else { let a = 3 };
TextElseLet ==
    <<K("If"), K("LParen"), K("False"), K("RParen"), K("LBrace"), I(1),
      K("RBrace"), K("Else"), K("LBrace"),
      K("Let"), Id("a"), K("Assign"), I(3), K("RBrace"), K("Semicolon")>>
\* a `let` in a block, and the name read after the block
BlockLetTexts ==
    {TextIfLet \o TextIdent,
     TextLet \o TextIfLet \o TextIdent,
     TextElseLet \o TextIdent,
     TextLet \o TextElseLet \o TextIdent}

\* ); 9;
DefectNoPrefix == <<K("RParen"), K("Semicolon"), I(9), K("Semicolon")>>
\* (1 + 2; 9;
DefectNoRParen ==
    <<K("LParen"), I(1), K("Plus"), I(2), K("Semicolon"), I(9),
      K("Semicolon")>>
\* if (true) { 1; 9;
DefectNoRBrace ==
    <<K("If"), K("LParen"), K("True"), K("RParen"), K("LBrace"), I(1),
      K("Semicolon"), I(9), K("Semicolon")>>
\* let 5 = 3; 9;
DefectLetName ==
    <<K("Let"), I(5), K("Assign"), I(3), K("Semicolon"), I(9),
      K("Semicolon")>>
\* fn(1) { 2 }; 9;
DefectParameter ==
    <<K("Function"), K("LParen"), I(1), K("RParen"), K("LBrace"), I(2),
      K("RBrace"), K("Semicolon"), I(9), K("Semicolon")>>
DefectTexts ==
    {DefectNoPrefix, DefectNoRParen, DefectNoRBrace, DefectLetName,
     DefectParameter}

\* 88 + 2 * 3;
TextEightyEight ==
    <<I(88), K("Plus"), I(2), K("Asterisk"), I(3), K("Semicolon")>>

Scenarios ==
    {TextSum, TextCallInSum, TextIdentityCall, TextAddCall, TextLetChain,
     TextRebind, TextFoobar, TextEightyEight}
    \cup DefectTexts \cup BlockLetTexts
    \cup {TextLexicalScope(v, w) : v, w \in ScopeValues}
    \cup IfTexts \cup InfixTexts \cup MinusTexts

Inputs == OperatorChains \cup Programs \cup Scenarios

(***************************************************************************)
(* The texts the lexer runs on.                                            *)
(***************************************************************************)
\* let a = 5;
SourceLet ==
    <<"l", "e", "t", " ", "a", " ", "=", " ", "5", ";">>
\* 10+2 * a
SourceSum ==
    <<"1", "0", "+", "2", " ", "*", " ", "a">>
\* a<=b != c
SourceCompare ==
    <<"a", "<", "=", "b", " ", "!", "=", " ", "c">>
\* if (true) { 1 };
SourceIf ==
    <<"i", "f", " ", "(", "t", "r", "u", "e", ")", " ", "{", " ", "1", " ",
      "}", ";">>

\* the punctuation characters
PunctuationChars == {"(", ")", "{", "}", ",", ";"}
WhitespaceChars == {" ", "\n", "\t", "\r"}

\* text b with character w inserted after its first p characters
InsertAt(b, p, w) == SubSeq(b, 1, p) \o <<w>> \o SubSeq(b, p + 1, Len(b))
\* position p of text b lies between two tokens: the two parts of b have
\* tokens and b has the tokens of the first part, then those of the second
IsGap(b, p) ==
    /\ peekable_iter(SubSeq(b, 1, p)) # <<>>
    /\ peekable_iter(SubSeq(b, p + 1, Len(b))) # <<>>
    /\ peekable_iter(SubSeq(b, 1, p))
         \o peekable_iter(SubSeq(b, p + 1, Len(b))) = peekable_iter(b)
Gaps(b) == {p \in 1..(Len(b) - 1) : IsGap(b, p)}

LexTexts == {SourceLet, SourceSum, SourceCompare, SourceIf}
\* the texts with one whitespace character more between two tokens
Respaced(b) == {InsertAt(b, p, w) : p \in Gaps(b), w \in WhitespaceChars}
Sources ==
    LexTexts
    \cup UNION {Respaced(b) : b \in LexTexts}
    \cup {<<c>> : c \in PunctuationChars}

(***************************************************************************)
(* The state machine: Parser::new on an input, parse_next_statement until  *)
(* the stream ends, then the statement loop of Program::eval.              *)
(***************************************************************************)
\* a run starts at Lexer::new on a text, or at Parser::new on the tokens
\* of a text
Init ==
    /\ overflow_checks \in BOOLEAN
    /\ heap = <<>>
    /\ last_set = <<>>
    /\ stdin = <<>>
    /\ line = 0
    /\ stdout = <<>>
    /\ \/ /\ source \in Sources
          /\ chars = source
          /\ input = <<>>
          /\ phase = "lex"
       \/ /\ source = <<>>
          /\ chars = <<>>
          /\ input \in Inputs
          /\ phase = "parse"
    /\ tokens = input
    /\ statements = <<>>
    /\ index = 0
    /\ result = ObjNil
    /\ current_env = EmptyEnv
    /\ outcome = "running"
    /\ returned = ObjNil
    /\ error = ""
    /\ log = <<>>

\* Lexer::peekable_iter: one iteration of `while let Some(token) =
\* self.get_next_token()`; at None the tokens collected go to Parser::new
GetNextToken ==
    /\ phase = "lex"
    /\ LET r == get_next_token(chars) IN
       /\ chars' = r.rest
       /\ IF r.some
          THEN /\ input' = Append(input, r.val)
               /\ UNCHANGED <<tokens, phase>>
          ELSE /\ tokens' = input
               /\ phase' = "parse"
               /\ UNCHANGED input
    /\ UNCHANGED <<overflow_checks, source, env_vars, repl_vars, statements,
                   index, result, current_env, outcome, returned, error, log>>

\* Parser::parse_next_statement returning Some(statement), or panicking
ParseNextStatement ==
    /\ phase = "parse"
    /\ tokens # <<>>
    /\ LET r == parse_next_statement(tokens) IN
       /\ tokens' = r.rest
       /\ IF r.ok
          THEN /\ statements' = Append(statements, r.val)
               /\ UNCHANGED <<phase, outcome>>
          ELSE /\ phase' = "done"
               /\ outcome' = "panic"
               /\ UNCHANGED statements
    /\ UNCHANGED <<input, index, result, current_env, returned, error, log>>
    /\ UNCHANGED <<overflow_checks, lexer_vars, env_vars, repl_vars>>

\* Parser::parse_next_statement returning None: the statements are collected
ParseEnd ==
    /\ phase = "parse"
    /\ tokens = <<>>
    /\ phase' = "eval"
    /\ UNCHANGED <<input, tokens, statements, index, result, current_env,
                   outcome, returned, error, log>>
    /\ UNCHANGED <<overflow_checks, lexer_vars, env_vars, repl_vars>>

\* Program::eval whose loop does not return at a Return
EvalStatement_NoStop ==
    /\ phase = "eval"
    /\ index < Len(statements)
    /\ LET stack == StatementEval(statements[index + 1], current_env,
                                  <<index + 1>>, log)
       IN /\ log' = stack.log
          /\ CASE stack.status = "ok" ->
                    /\ index' = index + 1
                    /\ result' = stack.object
                    /\ current_env' = stack.env
                    /\ UNCHANGED <<phase, outcome, returned, error>>
               [] stack.status = "err" ->
                    /\ phase' = "done"
                    /\ outcome' = "err"
                    /\ error' = stack.msg
                    /\ UNCHANGED <<index, result, current_env, returned>>
               [] OTHER ->
                    /\ phase' = "done"
                    /\ outcome' = "panic"
                    /\ UNCHANGED <<index, result, current_env, returned,
                                   error>>
    /\ UNCHANGED <<input, tokens, statements>>
    /\ UNCHANGED <<overflow_checks, lexer_vars, env_vars, repl_vars>>

\* Program::eval whose loop drops an Err and goes on with the next statement
EvalStatement_SkipError ==
    /\ phase = "eval"
    /\ index < Len(statements)
    /\ LET stack == StatementEval(statements[index + 1], current_env,
                                  <<index + 1>>, log)
       IN /\ log' = stack.log
          /\ CASE stack.status = "ok" ->
                    /\ index' = index + 1
                    /\ result' = stack.object
                    /\ current_env' = stack.env
                    /\ IF stack.object.kind = "Return"
                       THEN /\ phase' = "done"
                            /\ outcome' = "ok"
                            /\ returned' = stack.object.val
                       ELSE UNCHANGED <<phase, outcome, returned>>
                    /\ UNCHANGED error
               [] stack.status = "err" ->
                    /\ index' = index + 1
                    /\ UNCHANGED <<phase, outcome, error, result,
                                   current_env, returned>>
               [] OTHER ->
                    /\ phase' = "done"
                    /\ outcome' = "panic"
                    /\ UNCHANGED <<index, result, current_env, returned,
                                   error>>
    /\ UNCHANGED <<input, tokens, statements>>
    /\ UNCHANGED <<overflow_checks, lexer_vars, env_vars, repl_vars>>

\* Program::eval: one iteration of `for statement in ...`
EvalStatement ==
    /\ phase = "eval"
    /\ index < Len(statements)
    /\ LET stack == StatementEval(statements[index + 1], current_env,
                                  <<index + 1>>, log)
       IN /\ log' = stack.log
          /\ CASE stack.status = "ok" ->
                    /\ index' = index + 1
                    /\ result' = stack.object
                    /\ current_env' = stack.env
                    /\ IF stack.object.kind = "Return"
                       THEN /\ phase' = "done"
                            /\ outcome' = "ok"
                            /\ returned' = stack.object.val
                       ELSE UNCHANGED <<phase, outcome, returned>>
                    /\ UNCHANGED error
               [] stack.status = "err" ->
                    /\ phase' = "done"
                    /\ outcome' = "err"
                    /\ error' = stack.msg
                    /\ UNCHANGED <<index, result, current_env, returned>>
               [] OTHER ->
                    /\ phase' = "done"
                    /\ outcome' = "panic"
                    /\ UNCHANGED <<index, result, current_env, returned,
                                   error>>
    /\ UNCHANGED <<input, tokens, statements>>
    /\ UNCHANGED <<overflow_checks, lexer_vars, env_vars, repl_vars>>

\* Program::eval: the loop is over, Ok(Stack { object: result, .. })
ProgramReturn ==
    /\ phase = "eval"
    /\ index = Len(statements)
    /\ phase' = "done"
    /\ outcome' = "ok"
    /\ returned' = result
    /\ UNCHANGED <<input, tokens, statements, index, result, current_env,
                   error, log>>
    /\ UNCHANGED <<overflow_checks, lexer_vars, env_vars, repl_vars>>

Next ==
    \/ GetNextToken
    \/ ParseNextStatement
    \/ ParseEnd
    \/ EvalStatement
    \/ ProgramReturn

Spec == Init /\ [][Next]_vars

(***************************************************************************)
(* The state machine of environment.rs: environments are created, alone or *)
(* enclosed in one that exists, and names are set in any of them.          *)
(***************************************************************************)
MaxEnvs == 2
Names == {"x", "y"}
Values == {ObjInt(1), ObjInt(2)}
\* fn() { } closing over the environment of `cell`
Closure(cell) == ObjFunction(<<>>, <<>>, cell)
\* the values set is called with on the environment of `cell`: integers,
\* and a function that captures that same environment
ValuesFor(cell) == Values \cup {Closure(cell)}
\* the stores new_enclosed is called with: empty, or binding a parameter
Stores == {EmptyEnv, "x" :> ObjInt(1)}
Cells == 1..Len(heap)

EnvInit ==
    /\ heap = <<>>
    /\ last_set = <<>>
    /\ stdin = <<>>
    /\ line = 0
    /\ stdout = <<>>
    /\ overflow_checks = TRUE
    /\ source = <<>>
    /\ chars = <<>>
    /\ input = <<>>
    /\ tokens = <<>>
    /\ statements = <<>>
    /\ phase = "env"
    /\ index = 0
    /\ result = ObjNil
    /\ current_env = EmptyEnv
    /\ outcome = "running"
    /\ returned = ObjNil
    /\ error = ""
    /\ log = <<>>

pipeline_vars ==
    <<overflow_checks, lexer_vars, repl_vars, input, tokens, statements,
      phase, index, result, current_env, outcome, returned, error, log>>

\* Rc::new(RefCell::new(Environment::new()))
New ==
    /\ Len(heap) < MaxEnvs
    /\ heap' = Append(heap, new)
    /\ UNCHANGED <<last_set, pipeline_vars>>

\* Environment::new_enclosed(outer, store)
NewEnclosed ==
    /\ Len(heap) < MaxEnvs
    /\ \E outer \in Cells, store \in Stores :
         heap' = new_enclosed(heap, outer, store)
    /\ UNCHANGED <<last_set, pipeline_vars>>

\* cell.borrow_mut().set(name, &val)
Set ==
    /\ \E cell \in Cells, name \in Names :
       \E val \in ValuesFor(cell) :
         /\ heap' = set(heap, cell, name, val)
         /\ last_set' = <<cell, name, val>>
    /\ UNCHANGED pipeline_vars

EnvNext == New \/ NewEnclosed \/ Set

EnvSpec == EnvInit /\ [][EnvNext]_vars

(***************************************************************************)
(* The state machine of repl.rs: Repl::start reads a line, runs the        *)
(* pipeline on it with the environment it holds, prints the outcome and    *)
(* reads the next line.  At the end of standard input read_line returns    *)
(* an empty line for ever, so the loop spins without changing the state.   *)
(***************************************************************************)
MaxLines == 3

WhiteSpace == {" ", "\n", "\t", "\r"}

RECURSIVE TrimStart(_)
\* str::trim_start
TrimStart(cs) ==
    IF cs # <<>> /\ Head(cs) \in WhiteSpace THEN TrimStart(Tail(cs)) ELSE cs

RECURSIVE TrimEnd(_)
\* str::trim_end
TrimEnd(cs) ==
    IF cs # <<>> /\ cs[Len(cs)] \in WhiteSpace
    THEN TrimEnd(SubSeq(cs, 1, Len(cs) - 1))
    ELSE cs

\* str::trim
Trim(cs) == TrimEnd(TrimStart(cs))

\* the lines typed into the REPL, each as read_line returns it
LineLet == SourceLet \o <<"\n">>
LineRead == <<" ", "a", "\n">>
LineUnbound == <<"b", "\n">>
LineDivide == <<"1", "/", "0", "\n">>
LineEmpty == <<"\n">>
LineExit == <<"e", "x", "i", "t", "\n">>
Lines == {LineLet, LineRead, LineUnbound, LineDivide, LineEmpty, LineExit}
Sessions == UNION {[1..n -> Lines] : n \in 1..MaxLines}

\* `let mut env = Environment::new()` and the first read_line
ReplInit ==
    /\ overflow_checks = TRUE
    /\ heap = <<>>
    /\ last_set = <<>>
    /\ stdin \in Sessions
    /\ line = 0
    /\ stdout = <<>>
    /\ source = <<>>
    /\ chars = <<>>
    /\ input = <<>>
    /\ tokens = <<>>
    /\ statements = <<>>
    /\ phase = "read"
    /\ index = 0
    /\ result = ObjNil
    /\ current_env = EmptyEnv
    /\ outcome = "running"
    /\ returned = ObjNil
    /\ error = ""
    /\ log = <<>>

\* one read_line and what the loop does with the trimmed line: return at
\* "exit", continue at an empty line, else Lexer::new_from_str,
\* Parser::new and Program::new with the environment of the REPL
ReadLine ==
    /\ phase = "read"
    /\ line < Len(stdin)
    /\ line' = line + 1
    /\ LET text == Trim(stdin[line + 1]) IN
       IF text = Trim(LineExit)
       THEN /\ phase' = "exited"
            /\ UNCHANGED <<lexer_vars, input, tokens, statements, index,
                           result, outcome, returned, error, log>>
       ELSE IF text = <<>>
       THEN UNCHANGED <<lexer_vars, input, tokens, statements, phase, index,
                        result, outcome, returned, error, log>>
       ELSE /\ source' = text
            /\ chars' = text
            /\ input' = <<>>
            /\ tokens' = <<>>
            /\ statements' = <<>>
            /\ phase' = "lex"
            /\ index' = 0
            /\ result' = ObjNil
            /\ outcome' = "running"
            /\ returned' = ObjNil
            /\ error' = ""
            /\ log' = <<>>
    /\ UNCHANGED <<overflow_checks, env_vars, stdin, stdout, current_env>>

\* `match eval`: Ok keeps the environment of the stack and prints the
\* object, Err starts over with Environment::new() and prints the error; a
\* panic of the pipeline unwinds out of Repl::start
PrintResult ==
    /\ phase = "done"
    /\ line > 0
    /\ CASE outcome = "ok" ->
              /\ stdout' = Append(stdout, <<line, ObjectDisplay(returned)>>)
              /\ phase' = "read"
              /\ UNCHANGED current_env
         [] outcome = "err" ->
              /\ current_env' = EmptyEnv
              /\ stdout' = Append(stdout, <<line, "error: " \o error>>)
              /\ phase' = "read"
         [] OTHER ->
              /\ phase' = "aborted"
              /\ UNCHANGED <<stdout, current_env>>
    /\ UNCHANGED <<overflow_checks, lexer_vars, env_vars, stdin, line, input,
                   tokens, statements, index, result, outcome, returned,
                   error, log>>

ReplNext ==
    \/ ReadLine
    \/ GetNextToken
    \/ ParseNextStatement
    \/ ParseEnd
    \/ EvalStatement
    \/ ProgramReturn
    \/ PrintResult

ReplSpec == ReplInit /\ [][ReplNext]_vars

(***************************************************************************)
(* Properties                                                              *)
(***************************************************************************)
Finished == phase = "done"
Lexed == phase # "lex"
Parsed == phase \notin {"lex", "parse"}
IsPrefix(p, q) == Len(p) <= Len(q) /\ SubSeq(q, 1, Len(p)) = p
Parent(p) == SubSeq(p, 1, Len(p) - 1)
Last(p) == p[Len(p)]
Unwrap(o) == IF o.kind = "Return" THEN o.val ELSE o

\* the events of the top-level statements, in the order they happened
TopEvals == SelectSeq(log, LAMBDA e : e.ev = "eval" /\ Len(e.path) = 1)
TopDones == SelectSeq(log, LAMBDA e : e.ev = "done" /\ Len(e.path) = 1)

\* the statement whose evaluation started at log[i] yielded no value
Undone(i) ==
    /\ log[i].ev = "eval"
    /\ ~ \E j \in 1..Len(log) :
           log[j].ev = "done" /\ log[j].path = log[i].path

\* C1: whenever Program::eval returns Ok, the object it returns is not an
\* Object::Return, also when a `return` or `let` evaluates an if-block that
\* executes `return`.
C1_ReturnConfined ==
    (Finished /\ outcome = "ok") => returned.kind # "Return"

C3_TopLevelOrder ==
    /\ \A k \in 1..Len(TopEvals) : TopEvals[k].path = <<k>>
    /\ \A k \in 1..Len(TopDones) :
         TopDones[k].object.kind = "Return"
         => /\ k = Len(TopDones)
            /\ Len(TopEvals) = k
            /\ Finished /\ outcome = "ok" /\ returned = TopDones[k].object.val
    /\ (Finished /\ outcome = "ok")
       => IF TopDones = <<>> THEN statements = <<>> /\ returned = ObjNil
          ELSE \/ TopDones[Len(TopDones)].object.kind = "Return"
               \/ /\ Len(TopDones) = Len(statements)
                  /\ returned = TopDones[Len(TopDones)].object
    /\ (Finished /\ input = TextNine \o TextReturn \o TextNine)
       => outcome = "ok" /\ returned = ObjInt(10) /\ Len(TopEvals) = 2

C3_Witness ==
    /\ Finished
    /\ input = TextNine \o TextReturn \o TextNine
    /\ returned = ObjInt(10)
    /\ Len(statements) = 3
    /\ index = 2

\* C4: when the evaluation of a statement or sub-expression produces an
\* error, Program::eval returns that error and no statement is evaluated
\* after the failing one, at top level or inside an if-block
\* (`5; true + false; 5` yields `type mismatch: true + false`).
C4_ErrorStops ==
    /\ \A i \in 1..Len(log) :
         Undone(i)
         => /\ Finished /\ outcome \in {"err", "panic"}
            /\ \A j \in i..Len(log) : IsPrefix(log[i].path, log[j].path)
    /\ outcome = "err"
       => /\ Finished
          /\ Len(TopEvals) = index + 1
          /\ Len(TopDones) = index
          /\ Undone(Len(log) - Len(SelectSeq(log, LAMBDA e :
                                       IsPrefix(<<index + 1>>, e.path))) + 1)
          /\ returned = ObjNil
    /\ (Finished /\ input = TextNine \o TextMismatch \o TextNine)
       => /\ outcome = "err"
          /\ error = "type mismatch: true + false"
          /\ index = 1
    /\ (Finished /\ input = TextBlockMismatch \o TextNine)
       => /\ outcome = "err"
          /\ error = "type mismatch: true + false"
          /\ index = 0

C4_Witness ==
    /\ Finished
    /\ input = TextNine \o TextMismatch \o TextNine
    /\ outcome = "err"
    /\ error = "type mismatch: true + false"
    /\ Len(TopEvals) = 2

\* C5: a call of a function value yields the value of the function body
\* evaluated with the parameters bound to the arguments:
\* `let identity = fn(x) { x; }; identity(5);` yields 5 and
\* `let add = fn(x, y) { x + y; }; add(5 + 5, add(5, 5));` yields 20.
C5_CallYieldsBodyValue ==
    /\ (Finished /\ input = TextIdentityCall)
       => outcome = "ok" /\ returned = ObjInt(5)
    /\ (Finished /\ input = TextAddCall)
       => outcome = "ok" /\ returned = ObjInt(20)

\* the value a literal token evaluates to
ValueOfToken(t) == LiteralEval(parse_prefix(t, <<>>).val.literal)

\* C6: for all values V and W, `let x = V; let f = fn(){ x }; let x = W; f()`
\* evaluates to V.
C6_LexicalScope ==
    \A v, w \in ScopeValues :
      (Finished /\ input = TextLexicalScope(v, w))
      => outcome = "ok" /\ returned = ValueOfToken(v)

\* the token of an infix operation, and its precedence
OperationToken(op) == CHOOSE t \in InfixTokens : operation(t) = <<op>>
OperationPrecedence(op) == precedence(OperationToken(op))

RECURSIVE Flatten(_)
\* the tokens of a paren-free expression, left to right
Flatten(e) ==
    CASE e.kind = "Identifier" -> <<Id(e.name)>>
      [] e.kind = "Prefix" ->
           <<K(IF e.operation = "Bang" THEN "Bang" ELSE "Minus")>>
           \o Flatten(e.expression)
      [] e.kind = "Infix" ->
           Flatten(e.left_expression) \o <<OperationToken(e.operation)>>
           \o Flatten(e.right_expression)
      [] OTHER -> <<>>

RECURSIVE TighterBelow(_)
\* no operand of an infix operator is an infix of lower precedence, and no
\* operand of a prefix operator is an infix
TighterBelow(e) ==
    CASE e.kind = "Infix" ->
           /\ \A c \in {e.left_expression, e.right_expression} :
                c.kind = "Infix"
                => OperationPrecedence(c.operation)
                     >= OperationPrecedence(e.operation)
           /\ TighterBelow(e.left_expression)
           /\ TighterBelow(e.right_expression)
      [] e.kind = "Prefix" ->
           e.expression.kind # "Infix" /\ TighterBelow(e.expression)
      [] OTHER -> TRUE

RECURSIVE LeftNested(_)
\* no right operand of an infix operator is an infix of the same precedence
LeftNested(e) ==
    CASE e.kind = "Infix" ->
           /\ e.right_expression.kind = "Infix"
              => OperationPrecedence(e.right_expression.operation)
                   # OperationPrecedence(e.operation)
           /\ LeftNested(e.left_expression)
           /\ LeftNested(e.right_expression)
      [] e.kind = "Prefix" -> LeftNested(e.expression)
      [] OTHER -> TRUE

\* the one expression statement a chain parses to
ParsedAsOne == Len(statements) = 1 /\ statements[1].kind = "Expression"
Shown == ExpressionDisplay(statements[1].expression)

\* C7: in a chain of infix operators the operator of higher precedence is
\* grouped more tightly whatever the order, and a prefix operator binds
\* tighter than any infix: `a + b * c` is (a+(b*c)), `a * b + c` is
\* ((a*b)+c), `-a * b` is ((-a)*b).
C7_Precedence ==
    /\ (Parsed /\ input \in OperatorChains)
       => /\ ParsedAsOne
          /\ Flatten(statements[1].expression) = input
          /\ TighterBelow(statements[1].expression)
    /\ (Parsed /\ input = <<Id("a"), K("Plus"), Id("b"), K("Asterisk"),
                            Id("c")>>)
       => Shown = "(a+(b*c))"
    /\ (Parsed /\ input = <<Id("a"), K("Asterisk"), Id("b"), K("Plus"),
                            Id("c")>>)
       => Shown = "((a*b)+c)"
    /\ (Parsed /\ input = <<K("Minus"), Id("a"), K("Asterisk"), Id("b")>>)
       => Shown = "((-a)*b)"

C7_Witness ==
    /\ Parsed
    /\ input = <<Id("a"), K("Asterisk"), Id("b"), K("Plus"), Id("c")>>
    /\ ParsedAsOne
    /\ Shown = "((a*b)+c)"

\* C8: a chain of infix operators of equal precedence is parsed
\* left-associatively: `a - b - c` is ((a-b)-c) and `1 + 2 + 3` is
\* ((1+2)+3), never (a-(b-c)).
C8_LeftAssociative ==
    /\ (Parsed /\ input \in OperatorChains)
       => /\ ParsedAsOne
          /\ Flatten(statements[1].expression) = input
          /\ LeftNested(statements[1].expression)
    /\ (Parsed /\ input = <<Id("a"), K("Minus"), Id("b"), K("Minus"),
                            Id("c")>>)
       => Shown = "((a-b)-c)"
    /\ (Parsed /\ input = TextSum) => ParsedAsOne /\ Shown = "((1+2)+3)"

C8_Witness ==
    /\ Parsed
    /\ input = <<Id("a"), K("Minus"), Id("b"), K("Minus"), Id("c")>>
    /\ ParsedAsOne
    /\ Shown = "((a-b)-c)"

\* C9: a `(` after a parsed left expression makes a Call of that expression
\* with the comma-separated arguments up to the matching `)`:
\* `a + add(b * c) + d` parses to the tree displayed as ((a+add ((b*c)))+d).
C9_CallParsed ==
    (Parsed /\ input = TextCallInSum)
    => ParsedAsOne /\ Shown = "((a+add ((b*c)))+d)"

\* C10 as stated: a `let` statement has the value Nil, so a program whose
\* last statement is a let evaluates to Nil.
C10_LetYieldsNil ==
    /\ \A k \in 1..Len(TopDones) :
         statements[k].kind = "Let" => TopDones[k].object = ObjNil
    /\ (/\ Finished /\ outcome = "ok"
        /\ index >= 1 /\ index = Len(statements)
        /\ statements[index].kind = "Let")
       => returned = ObjNil

\* C10 as amended: a `let name = expr` statement binds the value of expr
\* under name in the current environment and the statement's own value is
\* that bound value, so a program whose last statement is a let evaluates
\* to the value of its expr (less the Return wrapper Program::eval removes).
C10_LetYieldsBoundValue ==
    /\ (index >= 1 /\ Len(TopDones) = index
        /\ statements[index].kind = "Let")
       => /\ EnvHas(current_env, statements[index].identifier)
          /\ current_env[statements[index].identifier] = result
          /\ TopDones[index].object = result
          /\ (Finished /\ outcome = "ok") => returned = Unwrap(result)
    /\ (Finished /\ input = TextLet)
       => /\ outcome = "ok" /\ returned = ObjInt(5)
          /\ current_env["a"] = ObjInt(5)
    /\ (Finished /\ input = TextLet \o TextLetIfReturn)
       => /\ outcome = "ok" /\ returned = ObjInt(5)
          /\ current_env["b"] = ObjReturn(ObjInt(5))

C10_Witness ==
    /\ Finished
    /\ input = TextLet
    /\ statements[1].kind = "Let"
    /\ returned = ObjInt(5)
    /\ current_env["a"] = ObjInt(5)

\* C11: for every value the condition of an `if` can evaluate to, If::eval
\* picks a branch: Nil and Bool(false) run the else block when present and
\* otherwise yield Nil; Bool(true), every Int (including 0) and every
\* Function value run the then block.
C11_IfPicksBranch ==
    \A c \in IfConditions, e \in BOOLEAN :
      (Finished /\ input = TextIf(c, e))
      => /\ outcome = "ok"
         /\ returned = IF c \notin {CondNil, CondFalse} THEN ObjInt(10)
                       ELSE IF e THEN ObjInt(20) ELSE ObjNil

\* C12: evaluating `l / r` where l is an Int and r evaluates to Int(0)
\* returns a DivisionByZero error as the result of evaluation; it neither
\* produces a value nor aborts the interpreter.
C12_DivisionByZero ==
    \A l \in {I(5), I(0)} :
      (Finished /\ input = TextInfix(l, K("Slash"), I(0)))
      => outcome = "err" /\ error # ""

IsIntToken(t) == t.type = "Int"
\* the operand pairs the claim says mismatch under the operator
Mismatched(l, op, r) ==
    \/ IsIntToken(l) # IsIntToken(r)
    \/ ~IsIntToken(l) /\ ~IsIntToken(r) /\ op.type \notin {"Eq", "NotEq"}
\* type mismatch: <left> <op> <right>
MismatchMessage(l, op, r) ==
    "type mismatch: " \o ObjectDisplay(ValueOfToken(l)) \o " "
    \o InfixOperationDisplay(operation(op)[1]) \o " "
    \o ObjectDisplay(ValueOfToken(r))

\* C13: every infix operator applied to two Bools (other than Eq/NotEq) or
\* to one Int and one Bool in either order returns the error
\* `type mismatch: <left> <op> <right>` with the rendered operands, for Sub,
\* Mul, Div, Lt, Lte, Gt, Gte, Eq and NotEq as for Add.
C13_TypeMismatch ==
    \A l, r \in InfixOperandTokens, op \in InfixTokens :
      (Finished /\ input = TextInfix(l, op, r) /\ Mismatched(l, op, r))
      => outcome = "err" /\ error = MismatchMessage(l, op, r)

\* the value of an operand of MinusOperands
MinusOperandValue(x) ==
    IF x = OperandMin THEN ObjInt(I64_MIN) ELSE ValueOfToken(x[1])

\* C14: prefix minus applied to Int(n) yields Int(-n), and applied to any
\* other value yields the error `unknown operator -<rendered operand>`
\* (e.g. `unknown operator -true`) and never a value.
C14_PrefixMinus ==
    \A x \in MinusOperands :
      (Finished /\ input = TextMinus(x))
      => LET v == MinusOperandValue(x) IN
         IF v.kind = "Int"
         THEN outcome = "ok" /\ returned = ObjInt(-v.val)
         ELSE /\ outcome = "err"
              /\ error = "unknown operator -" \o ObjectDisplay(v)

RECURSIVE StatementUnder(_, _)
\* the statement at path p below statement s: 0 is the operand of a prefix
\* and the condition of an if, 1 and 2 the operands of an infix and the
\* blocks of an if, whose statements are numbered from 1
StatementUnder(s, p) ==
    IF p = <<>> THEN s
    ELSE LET e == s.expression IN
         CASE e.kind = "Prefix" ->
                StatementUnder(StmtExpression(e.expression), Tail(p))
           [] e.kind = "Infix" ->
                StatementUnder(
                    StmtExpression(IF p[1] = 1 THEN e.left_expression
                                   ELSE e.right_expression), Tail(p))
           [] e.kind = "If" /\ p[1] = 0 ->
                StatementUnder(StmtExpression(e.condition), Tail(p))
           [] e.kind = "If" /\ p[1] = 1 ->
                StatementUnder(e.consequence[p[2]], Tail(Tail(p)))
           [] OTHER ->
                StatementUnder(e.alternative[1][p[2]], Tail(Tail(p)))

\* the statement whose evaluation the event log[i] records
StatementAt(i) == StatementUnder(statements[log[i].path[1]], Tail(log[i].path))
\* log[i] is about an expression statement that is the identifier alone
ReadsName(i) ==
    /\ StatementAt(i).kind = "Expression"
    /\ StatementAt(i).expression.kind = "Identifier"
NameRead(i) == StatementAt(i).expression.name
\* the lets of name n that yielded their value before log[i]
LetsBefore(n, i) ==
    {j \in 1..(i - 1) :
       /\ log[j].ev = "done"
       /\ StatementAt(j).kind = "Let"
       /\ StatementAt(j).identifier = n}
MaxOf(S) == CHOOSE x \in S : \A y \in S : y <= x

\* C15: evaluating an identifier returns the value most recently bound to
\* that name by a `let` executed earlier in the same evaluation
\* (`let a = 5; let b = a; let c = a + b + 5; c;` yields 15), and evaluating
\* a name that was never bound returns `identifier not found: <name>`.
C15_IdentifierLookup ==
    /\ \A i \in 1..Len(log) :
         (log[i].ev = "done" /\ ReadsName(i))
         => /\ LetsBefore(NameRead(i), i) # {}
            /\ log[i].object = log[MaxOf(LetsBefore(NameRead(i), i))].object
    /\ \A i \in 1..Len(log) :
         (log[i].ev = "eval" /\ ReadsName(i)
          /\ LetsBefore(NameRead(i), i) = {})
         => /\ Undone(i)
            /\ outcome = "err"
            /\ error = "identifier not found: " \o NameRead(i)
    /\ (Finished /\ input = TextLetChain)
       => outcome = "ok" /\ returned = ObjInt(15)
    /\ (Finished /\ input = TextRebind)
       => outcome = "ok" /\ returned = ObjInt(7)
    /\ (Finished /\ input = TextFoobar)
       => outcome = "err" /\ error = "identifier not found: foobar"

C15_Witness ==
    /\ Finished
    /\ input = TextLet \o TextIfElse \o TextIdent
    /\ outcome = "ok"
    /\ returned = ObjInt(2)
    /\ Cardinality(LetsBefore("a", Len(log))) = 2

\* C16: the lexer skips each of the four whitespace characters space,
\* newline, tab and carriage return: inserting any of them between two
\* tokens of an input does not change the token sequence produced and
\* never produces an Illegal token.
C16_WhitespaceSkipped ==
    (Lexed /\ source # <<>>)
    => \A b \in LexTexts :
         source \in Respaced(b)
         => /\ input = peekable_iter(b)
            /\ \A i \in 1..Len(input) : input[i].type # "Illegal"

\* the token kind the claim gives each punctuation character
PunctuationKind(c) ==
    CASE c = "(" -> "LParen"
      [] c = ")" -> "RParen"
      [] c = "{" -> "LBrace"
      [] c = "}" -> "RBrace"
      [] c = "," -> "Comma"
      [] c = ";" -> "Semicolon"

\* C17: the lexer maps every punctuation character to its own token kind:
\* `(` to LParen, `)` to RParen, `{` to LBrace, `}` to RBrace, `,` to Comma,
\* `;` to Semicolon, so that the `{`/`}` tokens it emits are the
\* LBrace/RBrace tokens the parser requires around if- and function-blocks.
C17_PunctuationOneToOne ==
    /\ \A c \in PunctuationChars :
         (Lexed /\ source = <<c>>) => input = <<Tok(PunctuationKind(c))>>
    /\ (Finished /\ source = SourceIf)
       => outcome = "ok" /\ returned = ObjInt(1)

\* C18: the display string of an expression statement is exactly the
\* display of its expression, every infix printed as `(L op R)` and every
\* prefix as `(op E)`, with no statement keyword added: `88 + 2 * 3;`
\* displays as `(88+(2*3))` and `foobar;` as `foobar`.
C18_ExpressionStatementDisplay ==
    /\ \A k \in 1..Len(statements) :
         statements[k].kind = "Expression"
         => StatementDisplay(statements[k])
              = ExpressionDisplay(statements[k].expression)
    /\ (Parsed /\ input = TextEightyEight)
       => ParsedAsOne /\ StatementDisplay(statements[1]) = "(88+(2*3))"
    /\ (Parsed /\ input = TextFoobar)
       => ParsedAsOne /\ StatementDisplay(statements[1]) = "foobar"

\* C19: for every token sequence with one of the listed defects (a token
\* with no prefix parser where an expression must start, a missing closing
\* paren or brace, a non-identifier after `let`, a non-identifier in a
\* function parameter position) the parser reports a parse error at that
\* point and produces no statement for the defective input and none after
\* it; it never accepts the input as a well-formed statement and never
\* aborts.
C19_ParseErrorReported ==
    (Parsed /\ input \in DefectTexts)
    => /\ statements = <<>>
       /\ outcome = "err"
       /\ error # ""

RECURSIVE Outers(_, _)
\* the cells of the outer chain of a cell, the cell itself not included
Outers(h, cell) ==
    IF h[cell].outer = 0 THEN {}
    ELSE {h[cell].outer} \cup Outers(h, h[cell].outer)

\* this step is the call set(name, val) on the environment of `cell`
IsSet(cell, name, val) ==
    /\ cell \in Cells
    /\ Len(heap') = Len(heap)
    /\ last_set' = <<cell, name, val>>
    /\ last_set' # last_set \/ heap' # heap

\* C20: Environment::set(name, v) on a child environment changes only that
\* environment's local store: after it, get on every outer environment
\* returns what it returned before, get(name) on the child returns v, the
\* child's latest value, and for a name that is not in the child's store
\* get on the child returns the outer's value.
C20_SetIsLocal ==
    [][\A cell \in Cells, name \in Names :
       \A val \in ValuesFor(cell) :
         IsSet(cell, name, val)
         => /\ \A c \in Cells \ {cell} : heap'[c] = heap[c]
            /\ heap'[cell].outer = heap[cell].outer
            /\ \A o \in Outers(heap, cell), n \in Names :
                 get(heap', o, n) = get(heap, o, n)
            /\ get(heap', cell, name) = <<val>>
            /\ \A n \in Names \ {name} :
                 /\ get(heap', cell, n) = get(heap, cell, n)
                 /\ (n \notin DOMAIN heap'[cell].store
                     /\ heap'[cell].outer # 0)
                    => get(heap', cell, n) = get(heap', heap'[cell].outer, n)
      ]_vars

\* a child that shadows the value its outer environment has for x
C20_Witness ==
    /\ last_set # <<>>
    /\ heap[last_set[1]].outer # 0
    /\ last_set[2] = "x"
    /\ get(heap, last_set[1], "x") = <<ObjInt(2)>>
    /\ get(heap, heap[last_set[1]].outer, "x") = <<ObjInt(1)>>
    /\ get(heap, last_set[1], "y") = get(heap, heap[last_set[1]].outer, "y")
    /\ get(heap, last_set[1], "y") # <<>>

RECURSIVE OuterAfter(_, _, _)
\* the cell reached from `cell` by at most k outer links, 0 when the chain
\* has ended before
OuterAfter(h, cell, k) ==
    IF k = 0 \/ cell = 0 THEN cell
    ELSE OuterAfter(h, h[cell].outer, k - 1)

\* the functions stored in the environment of `cell`
StoredClosures(h, cell) ==
    {h[cell].store[n] : n \in {m \in DOMAIN h[cell].store :
                                  h[cell].store[m].kind = "Function"}}

\* C21: in every state reached through Environment::new,
\* Environment::new_enclosed and Environment::set, a Function that captures
\* an environment stored into that same environment included, the outer
\* link of every environment is None or an environment created before it,
\* so the chain of outer links has no cycle and ends after at most as many
\* links as there are environments, and Environment::get, which follows
\* that chain, returns for every name: the nearest binding, or None.
C21_OuterChainAcyclic ==
    \A cell \in Cells :
      /\ heap[cell].outer \in 0..(cell - 1)
      /\ cell \notin Outers(heap, cell)
      /\ OuterAfter(heap, cell, Len(heap)) = 0
      /\ \A f \in StoredClosures(heap, cell) : f.env \in Cells
      /\ \A n \in Names :
           get(heap, cell, n)
             = IF n \in DOMAIN heap[cell].store
               THEN <<heap[cell].store[n]>>
               ELSE IF \E o \in Outers(heap, cell) :
                         n \in DOMAIN heap[o].store
               THEN LET near == CHOOSE o \in Outers(heap, cell) :
                          /\ n \in DOMAIN heap[o].store
                          /\ \A q \in Outers(heap, cell) :
                               n \in DOMAIN heap[q].store => q <= o
                    IN <<heap[near].store[n]>>
               ELSE <<>>

\* an enclosed environment that holds a function capturing that same
\* environment, and a name that is found nowhere on its chain
C21_Witness ==
    \E cell \in Cells :
      /\ heap[cell].outer # 0
      /\ "x" \in DOMAIN heap[cell].store
      /\ heap[cell].store["x"] = Closure(cell)
      /\ get(heap, cell, "x") = <<Closure(cell)>>
      /\ get(heap, cell, "y") = <<>>
      /\ get(heap, heap[cell].outer, "x") = <<ObjInt(1)>>

\* the lines read so far that answered with this text
Answered(k, text) == \E p \in 1..Len(stdout) : stdout[p] = <<k, text>>

\* the REPL has finished with line k
Past(k) == k < line \/ (k = line /\ phase \in {"read", "exited"})

\* C22: in the REPL loop a binding made by a `let` in a successfully
\* evaluated line is visible to every later line until `exit`, also when a
\* line in between fails with an error: the REPL reports the error, keeps
\* the environment and continues with the next line.  Here: once the line
\* `let a = 5;` is answered with 5, every later line `a` is answered with
\* 5, and a line `b` in between is answered with its error.
C22_BindingSurvivesError ==
    \A j \in 1..Len(stdin), k \in 1..Len(stdin) :
      ( /\ j < k
        /\ stdin[j] = LineLet
        /\ Answered(j, "5")
        /\ Past(k)
        /\ \A i \in 1..k : stdin[i] # LineExit
        /\ \A i \in (j + 1)..(k - 1) :
             stdin[i] \in {LineRead, LineUnbound, LineEmpty} )
      => /\ stdin[k] = LineRead => Answered(k, "5")
         /\ stdin[k] = LineUnbound
              => Answered(k, "error: identifier not found: b")

\* the names bound by the lets that have yielded their value so far
NamesLet ==
    {StatementAt(j).identifier :
       j \in {i \in 1..Len(log) :
                log[i].ev = "done" /\ StatementAt(i).kind = "Let"}}

\* log[j] is a let in the then- or else-block of an `if`
LetInBlock(j) ==
    /\ log[j].ev = "done"
    /\ StatementAt(j).kind = "Let"
    /\ Len(log[j].path) > 1

\* C23: blocks open no scope of their own in the evaluator: a `let`
\* executed inside the then- or else-block of an `if` binds the name in the
\* environment the enclosing statement sequence continues with.  While no
\* statement has failed, the environment of Program::eval binds exactly the
\* names of the lets executed so far, in blocks or not, each to the value of
\* its latest let; so after `if (true) { let a = 1 }` a later `a` evaluates
\* to 1, and a let in a block that rebinds a name overwrites it for the
\* statements after the block.
C23_BlocksOpenNoScope ==
    /\ (Parsed /\ outcome \in {"running", "ok"}
        /\ Len(TopDones) = Len(TopEvals))
       => /\ DOMAIN current_env = NamesLet
          /\ \A n \in NamesLet :
               current_env[n]
                 = log[MaxOf(LetsBefore(n, Len(log) + 1))].object
    /\ (Finished /\ input \in {TextIfLet \o TextIdent,
                                 TextLet \o TextIfLet \o TextIdent})
       => outcome = "ok" /\ returned = ObjInt(1)
    /\ (Finished /\ input \in {TextElseLet \o TextIdent,
                                 TextLet \o TextElseLet \o TextIdent})
       => outcome = "ok" /\ returned = ObjInt(3)

\* `let a = 5; if (false) { 1 } else { let a = 3 }; a;` has read 3: the
\* let of the else-block is the latest let of `a`
C23_Witness ==
    /\ Finished
    /\ input = TextLet \o TextElseLet \o TextIdent
    /\ outcome = "ok"
    /\ returned = ObjInt(3)
    /\ current_env["a"] = ObjInt(3)
    /\ LetInBlock(MaxOf(LetsBefore("a", Len(log) + 1)))

\* s is what is left of the stream t after at least one token is taken
ProperSuffix(s, t) ==
    /\ Len(s) < Len(t)
    /\ s = SubSeq(t, Len(t) - Len(s) + 1, Len(t))

====
